---- MODULE Spec2Model ----
(***************************************************************************)
(* Payments engine of rust-coding-test: src/src/engine/mod.rs,             *)
(* src/src/engine/types.rs and src/src/domain.rs.                          *)
(*                                                                         *)
(* Amounts are rust_decimal values; they are modelled as integers counting *)
(* units of 0.0001, on which Decimal's +, - and >= are exact.              *)
(* An Option<T> is modelled as a set with at most one element.             *)
(*                                                                         *)
(* The handlers are modelled as their text reads:                          *)
(*  - they insert into, test and remove from self.disputed_transactions    *)
(*    (mod.rs:132, 148, 155, 175, 185), the HashSet<TransactionId> whose   *)
(*    declaration at mod.rs:26-27 is commented out; it starts empty;       *)
(*  - process_dispute_transaction calls get_deposit_undisputed_mut         *)
(*    (mod.rs:116-118), which types.rs declares as get_deposit_undisputed; *)
(*    the result is only tested for Some, so the two agree;                *)
(*  - no handler assigns Deposit.dispute;                                  *)
(*  - process_withdrawal_transaction and process_chargeback_transaction    *)
(*    call Balance::remove (mod.rs:85, 182), the unconditional debit,      *)
(*    whose `?` has no error to propagate.                                 *)
(***************************************************************************)
EXTENDS Integers, FiniteSets, Sequences, TLC

\* ---- bounds ----
MaxClient == 2
MaxTxId == 1
MaxAmount == 1
\* transactions the iterator yields: streams of any clients, and of one client
MaxTransactions == 4
MaxSingleClient == 6
\* transaction ids of the one-client streams
MaxSingleTxId == 2
\* length of the streams that are fixed before process_transactions is called
MaxStream == 2
\* length of the stream of each of two engines run side by side
MaxEngineStream == 1

Clients == 1..MaxClient
TxIds == 1..MaxTxId
Amounts == 1..MaxAmount
SingleClientTxIds == 1..MaxSingleTxId

VARIABLES
    client_accounts,        \* PaymentsEngine.client_accounts : ClientId -> Account
    deposit_history,        \* PaymentsEngine.deposit_history : TransactionId -> Deposit
    disputed_transactions,  \* the HashSet<TransactionId> the handlers insert into and remove from
    last,                   \* the transaction process_transaction was last called with
    result,                 \* what that call returned
    processed,              \* number of transactions taken from the iterator
    second,                 \* another PaymentsEngine: its three fields, its stream and
                            \* its position in it; never called where one engine runs
    input,                  \* the transactions the iterator was built over; <<>> where
                            \* each element is chosen when it is taken
    net_accepted,           \* history: per client, deposits that returned Ok minus withdrawals that returned Ok
    charged_back            \* history: the deposits a Chargeback returned Ok for

vars == <<client_accounts, deposit_history, disputed_transactions, last, result,
          processed, input, net_accepted, charged_back, second>>

\* ---- domain.rs ----

DisputeState == {"None", "Open", "ChargedBack"}

\* Balance::default / Account::default
Balance_default == [available |-> 0, held |-> 0]
Account_default == [balance |-> Balance_default, locked |-> FALSE]

\* Deposit::new
Deposit_new(client, tx, amount) ==
    [client |-> client, tx |-> tx, amount |-> amount, dispute |-> "None"]

total(balance) == balance.available + balance.held

add(balance, amount) ==
    [balance EXCEPT !.available = @ + amount]

\* hold that moves the amount only while available covers it
hold_if_available(balance, amount) ==
    IF balance.available >= amount
    THEN [balance EXCEPT !.available = @ - amount, !.held = @ + amount]
    ELSE balance

hold(balance, amount) ==
    [balance EXCEPT !.available = @ - amount, !.held = @ + amount]

\* release that takes the amount off held without crediting available
release_held_only(balance, amount) ==
    [balance EXCEPT !.held = @ - amount]

release(balance, amount) ==
    [balance EXCEPT !.held = @ - amount, !.available = @ + amount]

\* returns the balance and the Result
try_remove(balance, amount) ==
    IF balance.available >= amount
    THEN [balance |-> [balance EXCEPT !.available = @ - amount], result |-> "Ok"]
    ELSE [balance |-> balance, result |-> "InsufficientFunds"]

\* the debit of try_remove, its Result dropped
remove_checked(balance, amount) ==
    try_remove(balance, amount).balance

remove(balance, amount) ==
    [balance EXCEPT !.available = @ - amount]

\* ---- engine/types.rs ----

add_deposit(history, deposit) ==
    [t \in DOMAIN history \cup {deposit.tx} |->
        IF t = deposit.tx THEN deposit ELSE history[t]]

\* get_deposit without the filter on the owner
get_deposit_any_client(history, tx_id, client_id) ==
    IF tx_id \in DOMAIN history THEN {history[tx_id]} ELSE {}

get_deposit(history, tx_id, client_id) ==
    IF tx_id \in DOMAIN history /\ history[tx_id].client = client_id
    THEN {history[tx_id]} ELSE {}

get_deposit_under_dispute_mut(history, tx_id) ==
    IF tx_id \in DOMAIN history /\ history[tx_id].dispute = "Open"
    THEN {history[tx_id]} ELSE {}

get_deposit_undisputed(history, tx_id) ==
    IF tx_id \in DOMAIN history /\ history[tx_id].dispute = "None"
    THEN {history[tx_id]} ELSE {}

\* insert(client_id, Account::default()) in place of entry(client_id).or_default()
get_or_create_account_insert(accounts, client_id) ==
    [c \in DOMAIN accounts \cup {client_id} |->
        IF c = client_id THEN Account_default ELSE accounts[c]]

get_or_create_account_mut(accounts, client_id) ==
    [c \in DOMAIN accounts \cup {client_id} |->
        IF c \in DOMAIN accounts THEN accounts[c] ELSE Account_default]

\* ---- engine/mod.rs ----

\* the guard without its test of the locked flag
check_account_eligibility_unguarded(account) == "Ok"

check_account_eligibility(account) ==
    IF account.locked THEN "AccountLocked" ELSE "Ok"

\* What a handler leaves behind: the engine's fields and the returned Result.
Outcome(accounts, history, disputed, res) ==
    [client_accounts |-> accounts, deposit_history |-> history,
     disputed_transactions |-> disputed, result |-> res]

set_balance(accounts, client_id, balance) ==
    [accounts EXCEPT ![client_id].balance = balance]

\* the withdrawal handler keeping the withdrawal in the history
process_withdrawal_transaction_recorded(accounts, history, disputed, client, tx, amount) ==
    LET accts == get_or_create_account_mut(accounts, client)
        account == accts[client]
        elig == check_account_eligibility(account)
    IN  IF elig # "Ok"
        THEN Outcome(accts, history, disputed, elig)
        ELSE Outcome(set_balance(accts, client, remove(account.balance, amount)),
                     add_deposit(history, Deposit_new(client, tx, amount)),
                     disputed, "Ok")

process_withdrawal_transaction(accounts, history, disputed, client, tx, amount) ==
    LET accts == get_or_create_account_mut(accounts, client)
        account == accts[client]
        elig == check_account_eligibility(account)
    IN  IF elig # "Ok"
        THEN Outcome(accts, history, disputed, elig)
        ELSE Outcome(set_balance(accts, client, remove(account.balance, amount)),
                     history, disputed, "Ok")

\* the deposit handler recording the deposit before it tests the lock
process_deposit_transaction_record_first(accounts, history, disputed, client, tx, amount) ==
    LET accts == get_or_create_account_mut(accounts, client)
        account == accts[client]
        elig == check_account_eligibility(account)
        recorded == add_deposit(history, Deposit_new(client, tx, amount))
    IN  IF elig # "Ok"
        THEN Outcome(accts, recorded, disputed, elig)
        ELSE Outcome(set_balance(accts, client, add(account.balance, amount)),
                     recorded, disputed, "Ok")

process_deposit_transaction(accounts, history, disputed, client, tx, amount) ==
    LET accts == get_or_create_account_mut(accounts, client)
        account == accts[client]
        elig == check_account_eligibility(account)
    IN  IF elig # "Ok"
        THEN Outcome(accts, history, disputed, elig)
        ELSE Outcome(set_balance(accts, client, add(account.balance, amount)),
                     add_deposit(history, Deposit_new(client, tx, amount)),
                     disputed, "Ok")

\* the dispute handler behind the guard of the deposit and withdrawal handlers
process_dispute_transaction_guarded(accounts, history, disputed, client, tx) ==
    LET accts == get_or_create_account_mut(accounts, client)
        account == accts[client]
        elig == check_account_eligibility(account)
        found == get_deposit(history, tx, client)
    IN  IF elig # "Ok"
        THEN Outcome(accts, history, disputed, elig)
        ELSE IF found = {}
        THEN Outcome(accts, history, disputed, "TransactionNotFound")
        ELSE LET disputed_tx == CHOOSE d \in found : TRUE
             IN  IF get_deposit_undisputed(history, disputed_tx.tx) = {}
                 THEN Outcome(accts, history, disputed, "TransactionAlreadyDisputed")
                 ELSE Outcome(set_balance(accts, client,
                                          hold(account.balance, disputed_tx.amount)),
                              history, disputed \cup {disputed_tx.tx}, "Ok")

process_dispute_transaction(accounts, history, disputed, client, tx) ==
    LET accts == get_or_create_account_mut(accounts, client)
        account == accts[client]
        found == get_deposit(history, tx, client)
    IN  IF found = {}
        THEN Outcome(accts, history, disputed, "TransactionNotFound")
        ELSE LET disputed_tx == CHOOSE d \in found : TRUE
             IN  IF get_deposit_undisputed(history, disputed_tx.tx) = {}
                 THEN Outcome(accts, history, disputed, "TransactionAlreadyDisputed")
                 ELSE Outcome(set_balance(accts, client,
                                          hold(account.balance, disputed_tx.amount)),
                              history, disputed \cup {disputed_tx.tx}, "Ok")

\* the resolve handler releasing the amount before it tests the dispute
process_resolve_transaction_release_first(accounts, history, disputed, client, tx) ==
    LET accts == get_or_create_account_mut(accounts, client)
        account == accts[client]
        found == get_deposit(history, tx, client)
    IN  IF found = {}
        THEN Outcome(accts, history, disputed, "TransactionNotFound")
        ELSE LET disputed_tx == CHOOSE d \in found : TRUE
                 released == set_balance(accts, client,
                                         release(account.balance, disputed_tx.amount))
             IN  IF disputed_tx.tx \notin disputed
                 THEN Outcome(released, history, disputed, "TransactionNotDisputed")
                 ELSE Outcome(released, history, disputed \ {disputed_tx.tx}, "Ok")

\* the resolve handler reporting a deposit that is not disputed as not found
process_resolve_transaction_not_found(accounts, history, disputed, client, tx) ==
    LET accts == get_or_create_account_mut(accounts, client)
        account == accts[client]
        found == get_deposit(history, tx, client)
    IN  IF found = {}
        THEN Outcome(accts, history, disputed, "TransactionNotFound")
        ELSE LET disputed_tx == CHOOSE d \in found : TRUE
             IN  IF disputed_tx.tx \notin disputed
                 THEN Outcome(accts, history, disputed, "TransactionNotFound")
                 ELSE Outcome(set_balance(accts, client,
                                          release(account.balance, disputed_tx.amount)),
                              history, disputed \ {disputed_tx.tx}, "Ok")

process_resolve_transaction(accounts, history, disputed, client, tx) ==
    LET accts == get_or_create_account_mut(accounts, client)
        account == accts[client]
        found == get_deposit(history, tx, client)
    IN  IF found = {}
        THEN Outcome(accts, history, disputed, "TransactionNotFound")
        ELSE LET disputed_tx == CHOOSE d \in found : TRUE
             IN  IF disputed_tx.tx \notin disputed
                 THEN Outcome(accts, history, disputed, "TransactionNotDisputed")
                 ELSE Outcome(set_balance(accts, client,
                                          release(account.balance, disputed_tx.amount)),
                              history, disputed \ {disputed_tx.tx}, "Ok")

\* the chargeback handler locking the account before it tests the dispute
process_chargeback_transaction_lock_first(accounts, history, disputed, client, tx) ==
    LET accts == get_or_create_account_mut(accounts, client)
        locked == [accts EXCEPT ![client].locked = TRUE]
        account == accts[client]
        found == get_deposit(history, tx, client)
    IN  IF found = {}
        THEN Outcome(accts, history, disputed, "TransactionNotFound")
        ELSE LET disputed_tx == CHOOSE d \in found : TRUE
             IN  IF disputed_tx.tx \notin disputed
                 THEN Outcome(locked, history, disputed, "TransactionNotDisputed")
                 ELSE LET released == release(account.balance, disputed_tx.amount)
                          removed == remove(released, disputed_tx.amount)
                      IN  Outcome(set_balance(locked, client, removed),
                                  history, disputed \ {disputed_tx.tx}, "Ok")

\* the chargeback handler looking the deposit up before it fetches the account
process_chargeback_transaction_no_create(accounts, history, disputed, client, tx) ==
    LET accts == get_or_create_account_mut(accounts, client)
        account == accts[client]
        found == get_deposit(history, tx, client)
    IN  IF found = {}
        THEN Outcome(accounts, history, disputed, "TransactionNotFound")
        ELSE LET disputed_tx == CHOOSE d \in found : TRUE
             IN  IF disputed_tx.tx \notin disputed
                 THEN Outcome(accts, history, disputed, "TransactionNotDisputed")
                 ELSE LET released == release(account.balance, disputed_tx.amount)
                          removed == remove(released, disputed_tx.amount)
                      IN  Outcome([accts EXCEPT ![client] =
                                      [balance |-> removed, locked |-> TRUE]],
                                  history, disputed \ {disputed_tx.tx}, "Ok")

process_chargeback_transaction(accounts, history, disputed, client, tx) ==
    LET accts == get_or_create_account_mut(accounts, client)
        account == accts[client]
        found == get_deposit(history, tx, client)
    IN  IF found = {}
        THEN Outcome(accts, history, disputed, "TransactionNotFound")
        ELSE LET disputed_tx == CHOOSE d \in found : TRUE
             IN  IF disputed_tx.tx \notin disputed
                 THEN Outcome(accts, history, disputed, "TransactionNotDisputed")
                 ELSE LET released == release(account.balance, disputed_tx.amount)
                          removed == remove(released, disputed_tx.amount)
                      IN  Outcome([accts EXCEPT ![client] =
                                      [balance |-> removed, locked |-> TRUE]],
                                  history, disputed \ {disputed_tx.tx}, "Ok")

\* Transaction values
Movement(kind, client, tx, amount) ==
    [kind |-> kind, client |-> client, tx |-> tx, amount |-> amount]
Reference(kind, client, tx) ==
    [kind |-> kind, client |-> client, tx |-> tx, amount |-> 0]
NoTransaction == [kind |-> "none", client |-> 0, tx |-> 0, amount |-> 0]

process_transaction(accounts, history, disputed, transaction) ==
    CASE transaction.kind = "deposit" ->
            process_deposit_transaction(accounts, history, disputed,
                transaction.client, transaction.tx, transaction.amount)
      [] transaction.kind = "withdrawal" ->
            process_withdrawal_transaction(accounts, history, disputed,
                transaction.client, transaction.tx, transaction.amount)
      [] transaction.kind = "dispute" ->
            process_dispute_transaction(accounts, history, disputed,
                transaction.client, transaction.tx)
      [] transaction.kind = "resolve" ->
            process_resolve_transaction(accounts, history, disputed,
                transaction.client, transaction.tx)
      [] transaction.kind = "chargeback" ->
            process_chargeback_transaction(accounts, history, disputed,
                transaction.client, transaction.tx)

\* ---- the state machine ----

\* PaymentsEngine::new: the fields of a new engine
Engine_new ==
    [client_accounts |-> <<>>, deposit_history |-> <<>>, disputed_transactions |-> {}]

\* a second engine, constructed and given the stream `stream`
SecondEngine(stream) ==
    [client_accounts |-> Engine_new.client_accounts,
     deposit_history |-> Engine_new.deposit_history,
     disputed_transactions |-> Engine_new.disputed_transactions,
     input |-> stream, processed |-> 0]

\* PaymentsEngine::new
Init ==
    /\ client_accounts = <<>>
    /\ deposit_history = <<>>
    /\ disputed_transactions = {}
    /\ last = NoTransaction
    /\ result = "none"
    /\ processed = 0
    /\ input = <<>>
    /\ second = SecondEngine(<<>>)
    /\ net_accepted = [c \in Clients |-> 0]
    /\ charged_back = {}

\* One iteration of the loop of process_transactions on `transaction`.
Step(transaction) ==
    LET out == process_transaction(client_accounts, deposit_history,
                                   disputed_transactions, transaction)
        c == transaction.client
        ok == out.result = "Ok"
    IN  /\ processed' = processed + 1
        /\ input' = input
        /\ second' = second
        /\ client_accounts' = out.client_accounts
        /\ deposit_history' = out.deposit_history
        /\ disputed_transactions' = out.disputed_transactions
        /\ last' = transaction
        /\ result' = out.result
        /\ net_accepted' =
              IF ok /\ transaction.kind = "deposit"
              THEN [net_accepted EXCEPT ![c] = @ + transaction.amount]
              ELSE IF ok /\ transaction.kind = "withdrawal"
              THEN [net_accepted EXCEPT ![c] = @ - transaction.amount]
              ELSE net_accepted
        /\ charged_back' =
              IF ok /\ transaction.kind = "chargeback"
              THEN charged_back \cup
                     {[client |-> c, tx |-> transaction.tx,
                       amount |-> deposit_history[transaction.tx].amount]}
              ELSE charged_back

ProcessDeposit ==
    \E c \in Clients, t \in TxIds, a \in Amounts :
        /\ processed < MaxTransactions
        /\ Step(Movement("deposit", c, t, a))

ProcessWithdrawal ==
    \E c \in Clients, t \in TxIds, a \in Amounts :
        /\ processed < MaxTransactions
        /\ Step(Movement("withdrawal", c, t, a))

ProcessDispute ==
    \E c \in Clients, t \in TxIds :
        /\ processed < MaxTransactions
        /\ Step(Reference("dispute", c, t))

ProcessResolve ==
    \E c \in Clients, t \in TxIds :
        /\ processed < MaxTransactions
        /\ Step(Reference("resolve", c, t))

ProcessChargeback ==
    \E c \in Clients, t \in TxIds :
        /\ processed < MaxTransactions
        /\ Step(Reference("chargeback", c, t))

Next ==
    \/ ProcessDeposit
    \/ ProcessWithdrawal
    \/ ProcessDispute
    \/ ProcessResolve
    \/ ProcessChargeback

Spec == Init /\ [][Next]_vars

\* The same engine fed a longer stream in which every transaction carries the
\* same client id.
TheClient == CHOOSE c \in Clients : TRUE

SingleClientDeposit ==
    \E t \in SingleClientTxIds, a \in Amounts :
        /\ processed < MaxSingleClient
        /\ Step(Movement("deposit", TheClient, t, a))

SingleClientWithdrawal ==
    \E t \in SingleClientTxIds, a \in Amounts :
        /\ processed < MaxSingleClient
        /\ Step(Movement("withdrawal", TheClient, t, a))

SingleClientDispute ==
    \E t \in SingleClientTxIds :
        /\ processed < MaxSingleClient
        /\ Step(Reference("dispute", TheClient, t))

SingleClientResolve ==
    \E t \in SingleClientTxIds :
        /\ processed < MaxSingleClient
        /\ Step(Reference("resolve", TheClient, t))

SingleClientChargeback ==
    \E t \in SingleClientTxIds :
        /\ processed < MaxSingleClient
        /\ Step(Reference("chargeback", TheClient, t))

NextSingleClient ==
    \/ SingleClientDeposit
    \/ SingleClientWithdrawal
    \/ SingleClientDispute
    \/ SingleClientResolve
    \/ SingleClientChargeback

SpecSingleClient == Init /\ [][NextSingleClient]_vars

\* process_transactions called on a finite stream that is fixed beforehand.
Transactions ==
    {Movement(k, c, t, a) : k \in {"deposit", "withdrawal"}, c \in Clients,
                            t \in TxIds, a \in Amounts}
    \cup {Reference(k, c, t) : k \in {"dispute", "resolve", "chargeback"},
                               c \in Clients, t \in TxIds}

Streams == UNION {[1..n -> Transactions] : n \in 0..MaxStream}

InitStream ==
    /\ client_accounts = <<>>
    /\ deposit_history = <<>>
    /\ disputed_transactions = {}
    /\ last = NoTransaction
    /\ result = "none"
    /\ processed = 0
    /\ input \in Streams
    /\ second = SecondEngine(<<>>)
    /\ net_accepted = [c \in Clients |-> 0]
    /\ charged_back = {}

\* the for loop stopping at the first Err, as `?` on the call would
ProcessNextUntilError ==
    /\ processed < Len(input)
    /\ result \in {"none", "Ok"}
    /\ Step(input[processed + 1])

\* one turn of the for loop: the next element of the iterator, whatever the
\* previous call returned
ProcessNext ==
    /\ processed < Len(input)
    /\ Step(input[processed + 1])

NextStream == ProcessNext

\* the loop is sequential code: it takes its next turn while one is left
SpecStream == InitStream /\ [][NextStream]_vars /\ WF_vars(NextStream)

\* The stream with deposit transaction ids that are unique: a Deposit carries
\* an id under which no deposit is stored.
ProcessFreshDeposit ==
    \E c \in Clients, t \in TxIds \ DOMAIN deposit_history, a \in Amounts :
        /\ processed < MaxTransactions
        /\ Step(Movement("deposit", c, t, a))

NextUniqueIds ==
    \/ ProcessFreshDeposit
    \/ ProcessWithdrawal
    \/ ProcessDispute
    \/ ProcessResolve
    \/ ProcessChargeback

SpecUniqueIds == Init /\ [][NextUniqueIds]_vars

\* The one-client stream with deposit transaction ids that are unique.
SingleClientFreshDeposit ==
    \E t \in SingleClientTxIds \ DOMAIN deposit_history, a \in Amounts :
        /\ processed < MaxSingleClient
        /\ Step(Movement("deposit", TheClient, t, a))

NextSingleClientUniqueIds ==
    \/ SingleClientFreshDeposit
    \/ SingleClientWithdrawal
    \/ SingleClientDispute
    \/ SingleClientResolve
    \/ SingleClientChargeback

SpecSingleClientUniqueIds == Init /\ [][NextSingleClientUniqueIds]_vars

\* Two engines, each constructed with PaymentsEngine::new and each running
\* process_transactions on a stream of its own, their turns interleaved.
EngineTransactions == {x \in Transactions : x.client = TheClient}

EngineStreams == UNION {[1..n -> EngineTransactions] : n \in 0..MaxEngineStream}

InitTwoEngines ==
    /\ client_accounts = Engine_new.client_accounts
    /\ deposit_history = Engine_new.deposit_history
    /\ disputed_transactions = Engine_new.disputed_transactions
    /\ last = NoTransaction
    /\ result = "none"
    /\ processed = 0
    /\ input \in EngineStreams
    /\ net_accepted = [c \in Clients |-> 0]
    /\ charged_back = {}
    /\ \E stream \in EngineStreams : second = SecondEngine(stream)

\* a turn of the second engine's loop run on an account store it shares with the first
ProcessNextSecondShared ==
    LET out == process_transaction(client_accounts, second.deposit_history,
                   second.disputed_transactions, second.input[second.processed + 1])
    IN  /\ second.processed < Len(second.input)
        /\ second' = [second EXCEPT !.client_accounts = out.client_accounts,
                                     !.deposit_history = out.deposit_history,
                                     !.disputed_transactions = out.disputed_transactions,
                                     !.processed = @ + 1]
        /\ client_accounts' = out.client_accounts
        /\ UNCHANGED <<deposit_history, disputed_transactions, last, result,
                       processed, input, net_accepted, charged_back>>

\* one turn of the second engine's loop: &mut self is the second engine
ProcessNextSecond ==
    LET out == process_transaction(second.client_accounts, second.deposit_history,
                   second.disputed_transactions, second.input[second.processed + 1])
    IN  /\ second.processed < Len(second.input)
        /\ second' = [second EXCEPT !.client_accounts = out.client_accounts,
                                     !.deposit_history = out.deposit_history,
                                     !.disputed_transactions = out.disputed_transactions,
                                     !.processed = @ + 1]
        /\ UNCHANGED <<client_accounts, deposit_history, disputed_transactions, last,
                       result, processed, input, net_accepted, charged_back>>

NextTwoEngines ==
    \/ ProcessNext
    \/ ProcessNextSecond

SpecTwoEngines == InitTwoEngines /\ [][NextTwoEngines]_vars

\* ---- vocabulary of the properties ----

\* The dispute state the engine attributes to the stored deposit tx: under
\* dispute while its id is in disputed_transactions, else its dispute field.
dispute_state(history, disputed, tx) ==
    IF tx \in disputed THEN "Open" ELSE history[tx].dispute

\* The ledger holds a deposit tx and it belongs to client.
Owns(history, client, tx) ==
    tx \in DOMAIN history /\ history[tx].client = client

\* The step just taken processed a transaction of one of these kinds.
Processes(kinds) == last'.kind \in kinds

Returned(res) == result' = res

\* Accounts that existed before the step are as they were; an account the
\* step created is the default account.
AccountsUntouched ==
    /\ DOMAIN client_accounts \subseteq DOMAIN client_accounts'
    /\ \A c \in DOMAIN client_accounts' :
          client_accounts'[c] =
             IF c \in DOMAIN client_accounts THEN client_accounts[c] ELSE Account_default

DisputeStatesUntouched ==
    /\ deposit_history' = deposit_history
    /\ disputed_transactions' = disputed_transactions

\* The account of client before the step (the default account if the step creates it).
Before(client) ==
    IF client \in DOMAIN client_accounts THEN client_accounts[client] ELSE Account_default

After(client) == client_accounts'[client]

OthersUntouched(client) ==
    \A c \in DOMAIN client_accounts' \ {client} :
        c \in DOMAIN client_accounts /\ client_accounts'[c] = client_accounts[c]

\* A Chargeback has returned Ok for the stored deposit tx.
WasChargedBack(tx) ==
    /\ tx \in DOMAIN deposit_history
    /\ [client |-> deposit_history[tx].client, tx |-> tx,
        amount |-> deposit_history[tx].amount] \in charged_back

RECURSIVE SumAmounts(_)
SumAmounts(deposits) ==
    IF deposits = {} THEN 0
    ELSE LET d == CHOOSE x \in deposits : TRUE
         IN  d.amount + SumAmounts(deposits \ {d})

\* ---- C1 ----
\* C1: a Deposit or a Withdrawal for a client whose account is locked returns
\* AccountLocked and leaves that account's available, held and locked as they were.
C1_LockedAccountRejectsMovement ==
    [][ (/\ Processes({"deposit", "withdrawal"})
         /\ last'.client \in DOMAIN client_accounts
         /\ client_accounts[last'.client].locked)
        => (/\ Returned("AccountLocked")
            /\ After(last'.client) = Before(last'.client)) ]_vars

C1_Witness ==
    /\ last.kind \in {"deposit", "withdrawal"}
    /\ result = "AccountLocked"
    /\ client_accounts[last.client].locked

\* ---- C2 ----
\* C2: Dispute(c, t) returns Ok if and only if the ledger holds a deposit t, the
\* deposit belongs to c and it is currently not disputed; otherwise it returns an error.
C2_DisputeSucceedsIffUndisputed ==
    [][ Processes({"dispute"})
        => (Returned("Ok") <=>
               (/\ Owns(deposit_history, last'.client, last'.tx)
                /\ dispute_state(deposit_history, disputed_transactions, last'.tx) = "None")) ]_vars

\* ---- C3 ----
\* C3: a successful Dispute of a deposit of amount a of client c takes a from c's
\* available, adds a to c's held, keeps c's total and locked flag, moves the deposit
\* from None to Open, and touches no other deposit and no other account.
C3_DisputeEffect ==
    [][ (Processes({"dispute"}) /\ Returned("Ok"))
        => LET c == last'.client
               t == last'.tx
               a == deposit_history[t].amount
           IN  /\ After(c).balance.available = Before(c).balance.available - a
               /\ After(c).balance.held = Before(c).balance.held + a
               /\ total(After(c).balance) = total(Before(c).balance)
               /\ After(c).locked = Before(c).locked
               /\ dispute_state(deposit_history, disputed_transactions, t) = "None"
               /\ dispute_state(deposit_history', disputed_transactions', t) = "Open"
               /\ \A u \in DOMAIN deposit_history \ {t} :
                     dispute_state(deposit_history', disputed_transactions', u)
                       = dispute_state(deposit_history, disputed_transactions, u)
               /\ OthersUntouched(c) ]_vars

\* ---- C4 ----
\* C4: a Dispute by its owner of a deposit that is under dispute is rejected and
\* the owner's held amount stays as it was (the amount is never held twice).
C4_NoDoubleDispute ==
    [][ (/\ Processes({"dispute"})
         /\ Owns(deposit_history, last'.client, last'.tx)
         /\ dispute_state(deposit_history, disputed_transactions, last'.tx) = "Open")
        => (/\ ~Returned("Ok")
            /\ After(last'.client).balance.held = Before(last'.client).balance.held) ]_vars

\* ---- C5 ----
\* C5: once the stored deposit t has been charged back, every later Dispute,
\* Resolve or Chargeback referencing t is rejected and changes no balance and
\* no dispute state.
C5_ChargedBackIsTerminal ==
    [][ (/\ Processes({"dispute", "resolve", "chargeback"})
         /\ WasChargedBack(last'.tx))
        => (/\ ~Returned("Ok")
            /\ AccountsUntouched
            /\ DisputeStatesUntouched) ]_vars

\* ---- C6 ----
\* C6: Resolve(c, t) and Chargeback(c, t) return Ok if and only if the ledger
\* holds a deposit t of c that is Open; in every other case (absent, another
\* client's, not disputed, resolved, already charged back) no balance, lock
\* flag or dispute state changes.
C6_ResolveChargebackIffOpen ==
    [][ Processes({"resolve", "chargeback"})
        => LET c == last'.client
               t == last'.tx
               open == /\ Owns(deposit_history, c, t)
                       /\ dispute_state(deposit_history, disputed_transactions, t) = "Open"
                       /\ ~WasChargedBack(t)
           IN  /\ Returned("Ok") <=> open
               /\ ~open => (AccountsUntouched /\ DisputeStatesUntouched) ]_vars

\* ---- C7 ----
\* C7: a successful Chargeback of a deposit of amount a of client c takes a from
\* c's held and total, keeps c's available, locks c, moves the deposit to
\* ChargedBack and touches no other account.
C7_ChargebackEffect ==
    [][ (Processes({"chargeback"}) /\ Returned("Ok"))
        => LET c == last'.client
               t == last'.tx
               a == deposit_history[t].amount
           IN  /\ After(c).balance.held = Before(c).balance.held - a
               /\ total(After(c).balance) = total(Before(c).balance) - a
               /\ After(c).balance.available = Before(c).balance.available
               /\ After(c).locked
               /\ dispute_state(deposit_history', disputed_transactions', t) = "ChargedBack"
               /\ OthersUntouched(c) ]_vars

\* ---- C8 ----
\* C8: a Withdrawal of a on an unlocked account returns Ok iff available >= a;
\* then available drops by a and held is kept; otherwise it returns
\* InsufficientFunds and available and held are kept.
C8_WithdrawalIffSufficient ==
    [][ (Processes({"withdrawal"}) /\ ~Before(last'.client).locked)
        => LET c == last'.client
               a == last'.amount
               b == Before(c).balance
           IN  IF b.available >= a
               THEN /\ Returned("Ok")
                    /\ After(c).balance = [available |-> b.available - a, held |-> b.held]
               ELSE /\ Returned("InsufficientFunds")
                    /\ After(c).balance = b ]_vars

\* ---- C9 ----
\* C9: once an account's locked flag is true it is true in every later state.
C9_LockedMonotonic ==
    [][ \A c \in DOMAIN client_accounts :
           client_accounts[c].locked
           => (c \in DOMAIN client_accounts' /\ client_accounts'[c].locked) ]_vars

\* a later transaction of a locked client was processed and the account is still locked
C9_Witness ==
    /\ last.kind \in {"deposit", "withdrawal", "dispute", "resolve"}
    /\ last.client \in DOMAIN client_accounts
    /\ client_accounts[last.client].locked

\* ---- C10 ----
\* C10: every client's total equals its accepted deposits minus its accepted
\* withdrawals minus the amounts of its charged-back deposits, and no Dispute
\* or Resolve changes a total.
C10_TotalIsNetOfAcceptedMovements ==
    /\ [](\A c \in DOMAIN client_accounts :
            total(client_accounts[c].balance) =
               net_accepted[c] - SumAmounts({d \in charged_back : d.client = c}))
    /\ [][ Processes({"dispute", "resolve"})
           => \A c \in DOMAIN client_accounts' :
                 total(After(c).balance) = total(Before(c).balance) ]_vars

\* ---- C11 ----
\* C11: in every reachable state in which Dispute(c, t) succeeds, Dispute(c, t)
\* followed at once by Resolve(c, t) succeeds too and leaves c's available and
\* held at their values before the dispute, c's locked flag as it was and the
\* deposit's dispute state at None.
C11_DisputeResolveRoundTrip ==
    \A c \in DOMAIN client_accounts, t \in DOMAIN deposit_history :
        LET dispute == process_transaction(client_accounts, deposit_history,
                           disputed_transactions, Reference("dispute", c, t))
            resolve == process_transaction(dispute.client_accounts,
                           dispute.deposit_history, dispute.disputed_transactions,
                           Reference("resolve", c, t))
        IN  dispute.result = "Ok"
            => /\ resolve.result = "Ok"
               /\ resolve.client_accounts[c].balance = client_accounts[c].balance
               /\ resolve.client_accounts[c].locked = client_accounts[c].locked
               /\ dispute_state(resolve.deposit_history,
                                 resolve.disputed_transactions, t) = "None"

\* a state with funds available and an undisputed deposit whose Dispute succeeds
C11_Witness ==
    \E c \in DOMAIN client_accounts, t \in DOMAIN deposit_history :
        /\ process_transaction(client_accounts, deposit_history,
                               disputed_transactions, Reference("dispute", c, t)).result = "Ok"
        /\ dispute_state(deposit_history, disputed_transactions, t) = "None"
        /\ ~WasChargedBack(t)
        /\ client_accounts[c].balance.available > 0

\* ---- C12 ----
\* C12: a transaction that was rejected and is applied again is rejected again,
\* with the same error, and leaves every account, every stored deposit and
\* every dispute state as the first rejection left them; so after any number
\* of repetitions the state is the one after the first rejection.
C12_RejectionIsIdempotent ==
    [][ (result \notin {"none", "Ok"} /\ last' = last)
        => (/\ Returned(result)
            /\ client_accounts' = client_accounts
            /\ DisputeStatesUntouched) ]_vars

\* a rejected transaction with funds and a deposit in place, rejected when repeated
C12_Witness ==
    /\ result \notin {"none", "Ok"}
    /\ deposit_history # <<>>
    /\ \E c \in DOMAIN client_accounts : total(client_accounts[c].balance) # 0
    /\ process_transaction(client_accounts, deposit_history,
                           disputed_transactions, last).result = result

C14_EveryElementOnceInOrder ==
    /\ [][ LET out == process_transaction(client_accounts, deposit_history,
                                          disputed_transactions, input[processed + 1])
           IN  /\ processed < Len(input)
               /\ processed' = processed + 1
               /\ last' = input[processed + 1]
               /\ result' = out.result
               /\ client_accounts' = out.client_accounts
               /\ deposit_history' = out.deposit_history
               /\ disputed_transactions' = out.disputed_transactions ]_vars
    /\ <>[](processed = Len(input))

\* the whole stream was processed, its first element was rejected and its last accepted
C14_Witness ==
    /\ Len(input) >= 2
    /\ processed = Len(input)
    /\ process_transaction(<<>>, <<>>, {}, input[1]).result # "Ok"
    /\ result = "Ok"

\* ---- C15 ----
\* C15: a transaction that returns an error leaves every account that existed
\* with its available, held and locked values, and every stored deposit with
\* its dispute state: nothing of it is applied.
C15_FailureAtomicity ==
    [][ ~Returned("Ok") => (AccountsUntouched /\ DisputeStatesUntouched) ]_vars

\* an error returned while a deposit is under dispute and its amount is held
C15_Witness ==
    /\ result \notin {"none", "Ok"}
    /\ disputed_transactions # {}
    /\ \E c \in DOMAIN client_accounts : client_accounts[c].balance.held > 0

C17_DisputeAllowsNegativeAvailable ==
    [][ LET c == last'.client
            t == last'.tx
            a == deposit_history[t].amount
            b == Before(c).balance
        IN  (/\ Processes({"dispute"})
             /\ Owns(deposit_history, c, t)
             /\ dispute_state(deposit_history, disputed_transactions, t) = "None"
             /\ ~WasChargedBack(t)
             /\ b.available < a)
            => /\ Returned("Ok")
               /\ After(c).balance = [available |-> b.available - a, held |-> b.held + a]
               /\ After(c).balance.available < 0
               /\ total(After(c).balance) = total(b) ]_vars

\* a deposit disputed after funds were withdrawn: its amount is held once and
\* available is negative
C17_Witness ==
    /\ last.kind = "dispute"
    /\ result = "Ok"
    /\ charged_back = {}
    /\ LET account == client_accounts[last.client]
       IN  /\ account.balance.available < 0
           /\ account.balance.held = deposit_history[last.tx].amount
           /\ net_accepted[last.client] < deposit_history[last.tx].amount

\* ---- C18 ----
\* C18: a Chargeback of a deposit of the client that is Open returns Ok whatever
\* available is, never InsufficientFunds: it takes the amount off held, leaves
\* available where it was before the chargeback, also below zero, and locks
\* the account.
C18_ChargebackNeverInsufficient ==
    [][ LET c == last'.client
            t == last'.tx
            a == deposit_history[t].amount
            b == Before(c).balance
        IN  (/\ Processes({"chargeback"})
             /\ Owns(deposit_history, c, t)
             /\ dispute_state(deposit_history, disputed_transactions, t) = "Open"
             /\ ~WasChargedBack(t))
            => /\ Returned("Ok")
               /\ After(c).balance = [available |-> b.available, held |-> b.held - a]
               /\ After(c).locked ]_vars

\* a chargeback accepted with available below zero
C18_Witness ==
    /\ last.kind = "chargeback"
    /\ result = "Ok"
    /\ Cardinality(charged_back) = 1
    /\ LET account == client_accounts[last.client]
       IN  /\ account.balance.available < 0
           /\ account.balance.held = 0
           /\ account.locked

C20_DepositEffect ==
    [][ LET c == last'.client
            t == last'.tx
            a == last'.amount
            b == Before(c).balance
        IN  (Processes({"deposit"}) /\ ~Before(c).locked)
            => /\ Returned("Ok")
               /\ After(c).balance = [available |-> b.available + a, held |-> b.held]
               /\ After(c).locked = Before(c).locked
               /\ OthersUntouched(c)
               /\ Owns(deposit_history', c, t)
               /\ deposit_history'[t].amount = a
               /\ dispute_state(deposit_history', disputed_transactions', t) = "None" ]_vars

\* ---- C21 ----
\* C21: a Withdrawal, accepted or rejected, stores nothing in the ledger, and a
\* Dispute, Resolve or Chargeback whose id is the id of an earlier withdrawal
\* of the stream and of no stored deposit is rejected and changes no balance
\* and no dispute state.
C21_WithdrawalsNeverDisputable ==
    [][ /\ Processes({"withdrawal"}) => deposit_history' = deposit_history
        /\ (/\ Processes({"dispute", "resolve", "chargeback"})
            /\ \E i \in 1..processed :
                  input[i].kind = "withdrawal" /\ input[i].tx = last'.tx
            /\ last'.tx \notin DOMAIN deposit_history)
           => (/\ ~Returned("Ok")
               /\ AccountsUntouched
               /\ DisputeStatesUntouched) ]_vars

\* an accepted withdrawal and then a Dispute, Resolve or Chargeback of the
\* same client naming its id, which was rejected
C21_Witness ==
    /\ processed = 2
    /\ input[1].kind = "withdrawal"
    /\ input[2].kind \in {"dispute", "resolve", "chargeback"}
    /\ input[2].tx = input[1].tx
    /\ input[2].client = input[1].client
    /\ net_accepted[input[1].client] < 0
    /\ result = "TransactionNotFound"

\* ---- C22 ----
\* C22: a deposit is stored with dispute state None, and the dispute state of a
\* stored deposit changes only from None to Open by a successful Dispute of
\* it, from Open to None by a successful Resolve of it and from Open to
\* ChargedBack by a successful Chargeback of it; each of the three, when it
\* succeeds, makes its transition.
C22_DisputeStateMachine ==
    [][ \A t \in DOMAIN deposit_history' :
          LET after == dispute_state(deposit_history', disputed_transactions', t)
              accepted(kind) == Processes({kind}) /\ Returned("Ok") /\ last'.tx = t
          IN  IF accepted("deposit")
              THEN after = "None"
              ELSE LET before == dispute_state(deposit_history, disputed_transactions, t)
                   IN  /\ accepted("dispute") => (before = "None" /\ after = "Open")
                       /\ accepted("resolve") => (before = "Open" /\ after = "None")
                       /\ accepted("chargeback") => (before = "Open" /\ after = "ChargedBack")
                       /\ ~(accepted("dispute") \/ accepted("resolve") \/ accepted("chargeback"))
                          => after = before ]_vars

C24_LedgerHoldsAcceptedDeposits ==
    [][ LET c == last'.client
            t == last'.tx
        IN  /\ IF Processes({"deposit"}) /\ Returned("Ok")
               THEN /\ DOMAIN deposit_history' = DOMAIN deposit_history \cup {t}
                    /\ Owns(deposit_history', c, t)
                    /\ deposit_history'[t].amount = last'.amount
                    /\ \A u \in DOMAIN deposit_history \ {t} :
                          deposit_history'[u] = deposit_history[u]
               ELSE deposit_history' = deposit_history
            /\ (Processes({"dispute", "resolve", "chargeback"})
                /\ t \notin DOMAIN deposit_history)
               => (~Returned("Ok") /\ AccountsUntouched) ]_vars

\* a Deposit was rejected with AccountLocked and the ledger does not hold its id
C24_Witness ==
    /\ last.kind = "deposit"
    /\ result = "AccountLocked"
    /\ last.tx \notin DOMAIN deposit_history

\* ---- C25 ----
\* C25: an accepted Deposit whose id is the id of a stored deposit replaces
\* that entry: the entry then has the new deposit's client and amount and
\* dispute state None, whatever the entry was before.
C25_DepositOverwrites ==
    [][ (/\ Processes({"deposit"})
         /\ Returned("Ok")
         /\ last'.tx \in DOMAIN deposit_history)
        => (/\ deposit_history'[last'.tx].client = last'.client
            /\ deposit_history'[last'.tx].amount = last'.amount
            /\ dispute_state(deposit_history', disputed_transactions', last'.tx) = "None") ]_vars

\* ---- C26 ----
\* C26: get_or_create_account_mut on a client id that has an account returns
\* the store as it is; no transaction removes an account, and a transaction
\* changes no account but that of its own client, and not even that one when
\* it is rejected.
C26_AccountsPersist ==
    /\ [](\A c \in DOMAIN client_accounts :
            get_or_create_account_mut(client_accounts, c) = client_accounts)
    /\ [][ /\ DOMAIN client_accounts \subseteq DOMAIN client_accounts'
           /\ \A c \in DOMAIN client_accounts :
                 (c # last'.client \/ ~Returned("Ok"))
                 => client_accounts'[c] = client_accounts[c] ]_vars

\* a client with funds had a later transaction rejected and still has its funds
C26_Witness ==
    /\ processed >= 2
    /\ result \notin {"none", "Ok"}
    /\ last.client \in DOMAIN client_accounts
    /\ total(client_accounts[last.client].balance) > 0

\* ---- C27 ----
\* C27: of two engines whose turns are interleaved, each is at every moment in
\* the state it reaches when it processes alone the part of its stream it has
\* processed so far; so two engines that have processed the same sequence
\* have the same accounts, ledger and disputes.
RECURSIVE Run(_)
Run(stream) ==
    IF stream = <<>>
    THEN Engine_new
    ELSE LET before == Run(SubSeq(stream, 1, Len(stream) - 1))
             out == process_transaction(before.client_accounts, before.deposit_history,
                        before.disputed_transactions, stream[Len(stream)])
         IN  [client_accounts |-> out.client_accounts,
              deposit_history |-> out.deposit_history,
              disputed_transactions |-> out.disputed_transactions]

FirstEngine ==
    [client_accounts |-> client_accounts, deposit_history |-> deposit_history,
     disputed_transactions |-> disputed_transactions]

SecondEngineFields ==
    [client_accounts |-> second.client_accounts,
     deposit_history |-> second.deposit_history,
     disputed_transactions |-> second.disputed_transactions]

C28_HeldIsSumOfOpenDeposits ==
    \A c \in DOMAIN client_accounts :
        client_accounts[c].balance.held =
            SumAmounts({deposit_history[t] : t \in
                {u \in DOMAIN deposit_history :
                    /\ deposit_history[u].client = c
                    /\ dispute_state(deposit_history, disputed_transactions, u) = "Open"}})

\* ---- C29 ----
\* C29: no account's held amount is ever negative, also when a Deposit reuses
\* the id of a stored deposit.
C29_HeldNeverNegative ==
    \A c \in DOMAIN client_accounts : client_accounts[c].balance.held >= 0

\* ---- C30 ----
\* C30: while no Deposit reuses the id of a stored deposit, an account is locked
\* exactly when a deposit of its client is in state ChargedBack; only an
\* accepted Chargeback sets a locked flag, and only that of its own client.
C30_LockedIffChargedBack ==
    /\ [](\A c \in DOMAIN client_accounts :
            client_accounts[c].locked
            <=> \E t \in DOMAIN deposit_history :
                   /\ deposit_history[t].client = c
                   /\ dispute_state(deposit_history, disputed_transactions, t) = "ChargedBack")
    /\ [][ \A c \in DOMAIN client_accounts' :
             (After(c).locked /\ ~Before(c).locked)
             => (Processes({"chargeback"}) /\ Returned("Ok") /\ last'.client = c) ]_vars

\* ---- C31 ----
\* C31: a Deposit, Withdrawal, Resolve or Chargeback, accepted or rejected,
\* that finds its client's available at zero or above leaves it at zero or
\* above.
C31_OnlyDisputeMakesAvailableNegative ==
    [][ (/\ Processes({"deposit", "withdrawal", "resolve", "chargeback"})
         /\ Before(last'.client).balance.available >= 0)
        => After(last'.client).balance.available >= 0 ]_vars

\* ---- C32 ----
\* C32: while no Deposit reuses the id of a stored deposit, a Chargeback of a
\* deposit that a Chargeback has already succeeded for is rejected, so the
\* owner's total is not reduced by its amount a second time.
C32_ChargedBackAtMostOnce ==
    [][ (Processes({"chargeback"}) /\ WasChargedBack(last'.tx))
        => (/\ ~Returned("Ok")
            /\ total(After(last'.client).balance) = total(Before(last'.client).balance)) ]_vars

\* ---- C33 ----
\* C33: a transaction never increases the total of an account that is locked,
\* and decreases it only if it is an accepted Chargeback of that account's
\* client.
C33_LockedTotalNeverIncreases ==
    [][ \A c \in DOMAIN client_accounts :
          client_accounts[c].locked
          => /\ total(After(c).balance) <= total(Before(c).balance)
             /\ total(After(c).balance) < total(Before(c).balance)
                => (/\ Processes({"chargeback"})
                    /\ Returned("Ok")
                    /\ last'.client = c) ]_vars

\* a second deposit was charged back on an account that the first chargeback
\* had locked
C33_Witness ==
    /\ last.kind = "chargeback"
    /\ result = "Ok"
    /\ client_accounts[last.client].locked
    /\ \E d \in charged_back : d.client = last.client /\ d.tx # last.tx

\* ---- C34 ----
\* C34: for a stream in which no two Deposits carry the same transaction id,
\* the stream with two adjacent transactions of different clients swapped
\* ends in the same accounts, ledger and disputes, and the final account of
\* each client is the one reached on the transactions of that client alone.
UniqueDepositIds(stream) ==
    \A i, j \in 1..Len(stream) :
        (i # j /\ stream[i].kind = "deposit" /\ stream[j].kind = "deposit")
        => stream[i].tx # stream[j].tx

Swapped(stream, i) ==
    [k \in 1..Len(stream) |->
        IF k = i THEN stream[i + 1] ELSE IF k = i + 1 THEN stream[i] ELSE stream[k]]

OfClient(stream, c) == SelectSeq(stream, LAMBDA x : x.client = c)

C34_OrderIndependentAcrossClients ==
    (processed = Len(input) /\ UniqueDepositIds(input))
    => /\ FirstEngine = Run(input)
       /\ \A i \in 1..(Len(input) - 1) :
             input[i].client # input[i + 1].client
             => Run(Swapped(input, i)) = FirstEngine
       /\ \A c \in DOMAIN client_accounts :
             Run(OfClient(input, c)).client_accounts[c] = client_accounts[c]

\* a processed stream whose last two transactions, of different clients, were
\* both accepted
C34_Witness ==
    /\ Len(input) >= 2
    /\ processed = Len(input)
    /\ UniqueDepositIds(input)
    /\ input[processed].client # input[processed - 1].client
    /\ result = "Ok"
    /\ Run(SubSeq(input, 1, processed - 1)) # Run(SubSeq(input, 1, processed - 2))
    /\ Cardinality(DOMAIN client_accounts) >= 2

====
